---- MODULE Spec2Model ----
(***************************************************************************)
(* Patient admission and billing tracker: the HospitalManagement class,    *)
(* the JSON persistence helpers and the three front-ends (terminal menu,   *)
(* streamlit_app, hospital_streamlit form) that share patients_data.json.  *)
(*                                                                         *)
(* Representation.  A string that the code splits at "-" (a bed id, a bed  *)
(* type name) is the sequence of its dash-free parts: "Semi-Private-3" is  *)
(* <<"Semi", "Private", "3">>, so s.split("-")[0] is <<Head(s)>>.  Python's *)
(* None is <<>>; an optional object is <<>> or <<obj>>.  Charges are the   *)
(* integral values of the floats the code keeps.                           *)
(***************************************************************************)
EXTENDS Integers, Sequences, FiniteSets, TLC

VARIABLES
    file,           \* patients_data.json: [exists, parses, items]
    fe,             \* per session: which front-end the process runs
    pc,             \* per session: position of the front-end
    patients,       \* per session: the in-memory list of HospitalManagement
    cur,            \* per session: index of `current` / st.session_state.inst, 0 = None
    patient_count,  \* per process: HospitalManagement.patient_count
    event,          \* the last handler run: what it was, on which record, how it ended
    steps           \* number of handler runs so far

vars == <<file, fe, pc, patients, cur, patient_count, event, steps>>

-----------------------------------------------------------------------------
(* Bounds of the model *)

MaxPatients == 2        \* records per collection
MaxBedPick == 1         \* the user picks among the first MaxBedPick beds listed
MaxSteps == 5           \* handler runs in a behaviour

-----------------------------------------------------------------------------
(* Generic helpers *)

None == <<>>

Max(a, b) == IF a >= b THEN a ELSE b

Get(d, k, default) == IF k \in DOMAIN d THEN d[k] ELSE default

\* truth value of an optional dash-split string: None and "" are false
Truthy(s) == s # None /\ s # <<"">>

RECURSIVE SumSeq(_)
SumSeq(q) == IF q = <<>> THEN 0 ELSE Head(q) + SumSeq(Tail(q))

FirstN(q, n) == SubSeq(q, 1, IF Len(q) < n THEN Len(q) ELSE n)

Range(q) == {q[i] : i \in 1..Len(q)}

-----------------------------------------------------------------------------
(* Catalog *)

BED_TYPES == << <<"ICU">>, <<"Private">>, <<"Semi", "Private">>, <<"General">> >>

BEDS_PER_TYPE == 20

Doctor(id, name, specialty, fee) ==
    [id |-> id, name |-> name, specialty |-> specialty, fee |-> fee]

Doctor_to_dict(d) ==
    [id |-> d.id, name |-> d.name, specialty |-> d.specialty, fee |-> d.fee]

Doctor_from_dict(d) ==
    Doctor(d["id"], d["name"], Get(d, "specialty", ""), Get(d, "fee", 0))

DOCTORS == <<
    Doctor(1, "Dr. A. Sharma", "General Medicine", 500),
    Doctor(2, "Dr. P. Rao", "Cardiology", 1500),
    Doctor(3, "Dr. L. Iyer", "Orthopedics", 1200),
    Doctor(4, "Dr. S. Kulkarni", "Pediatrics", 800) >>

treatment_prices == <<500, 4000, 25000, 800, 5000>>
pharmacy_prices == <<10, 400, 50, 150, 700>>
lab_prices == <<400, 800, 7000, 5000, 1200>>

-----------------------------------------------------------------------------
(* class HospitalManagement.  A method is an operator from the object (and *)
(* its arguments) to [self |-> the object afterwards, exc |-> the exception *)
(* raised, "none" when it returns, msg |-> the refusal it printed before   *)
(* returning, "" when it printed none].                                    *)

Ok(self) == [self |-> self, exc |-> "none", msg |-> ""]
Raise(self, e) == [self |-> self, exc |-> e, msg |-> ""]
Notice(self, msg) == [self |-> self, exc |-> "none", msg |-> msg]

\* how a call ended: the exception, else the refusal printed, else "none"
Outcome(r) == IF r.exc # "none" THEN r.exc ELSE IF r.msg # "" THEN r.msg ELSE "none"

\* __init__(**kw) with count = HospitalManagement.patient_count before the call
HospitalManagement(kw, count) ==
    LET pid == Get(kw, "patient_id", None)
        id == IF pid = None THEN count + 1 ELSE pid[1]
    IN  [inst |->
            [patient_id |-> id,
             room_charge |-> Get(kw, "room_charge", 0),
             treatment_charge |-> Get(kw, "treatment_charge", 0),
             pharmacy_charge |-> Get(kw, "pharmacy_charge", 0),
             lab_charge |-> Get(kw, "lab_charge", 0),
             service_charge |-> Get(kw, "service_charge", 500),
             name |-> Get(kw, "name", ""),
             age |-> Get(kw, "age", 0),
             address |-> Get(kw, "address", ""),
             admit_date |-> Get(kw, "admit_date", ""),
             discharge_date |-> Get(kw, "discharge_date", ""),
             bed_id |-> Get(kw, "bed_id", None),
             discharged |-> Get(kw, "discharged", FALSE),
             assigned_doctor |-> None,
             doctor_fee |-> 0,
             \* attributes hospital_streamlit adds to the object: <<>> while absent
             treatment_items |-> None,
             pharmacy_items |-> None,
             lab_items |-> None],
         count |-> IF pid = None THEN count + 1 ELSE Max(count, pid[1])]

NoArgs == [k \in {} |-> 0]

to_dict(self) ==
    [patient_id |-> self.patient_id,
     room_charge |-> self.room_charge,
     treatment_charge |-> self.treatment_charge,
     pharmacy_charge |-> self.pharmacy_charge,
     lab_charge |-> self.lab_charge,
     service_charge |-> self.service_charge,
     name |-> self.name,
     age |-> self.age,
     address |-> self.address,
     admit_date |-> self.admit_date,
     discharge_date |-> self.discharge_date,
     bed_id |-> self.bed_id,
     discharged |-> self.discharged,
     assigned_doctor |-> IF self.assigned_doctor # None
                         THEN <<Doctor_to_dict(self.assigned_doctor[1])>> ELSE None,
     doctor_fee |-> self.doctor_fee]

\* from_dict without `discharged=d.get("discharged", False)`
from_dict_drops_discharged(d, count) ==
    LET r == HospitalManagement(
                 [patient_id |-> IF "patient_id" \in DOMAIN d THEN <<d["patient_id"]>> ELSE None,
                  room_charge |-> Get(d, "room_charge", 0),
                  treatment_charge |-> Get(d, "treatment_charge", 0),
                  pharmacy_charge |-> Get(d, "pharmacy_charge", 0),
                  lab_charge |-> Get(d, "lab_charge", 0),
                  service_charge |-> Get(d, "service_charge", 500),
                  name |-> Get(d, "name", ""),
                  age |-> Get(d, "age", 0),
                  address |-> Get(d, "address", ""),
                  admit_date |-> Get(d, "admit_date", ""),
                  discharge_date |-> Get(d, "discharge_date", ""),
                  bed_id |-> Get(d, "bed_id", None)], count)
        doc == Get(d, "assigned_doctor", None)
    IN  [inst |-> IF doc # None
                  THEN [r.inst EXCEPT !.assigned_doctor = <<Doctor_from_dict(doc[1])>>,
                                      !.doctor_fee = Get(d, "doctor_fee", 0)]
                  ELSE r.inst,
         count |-> r.count]

\* from_dict with `service_charge=d.get("service_charge", 0.0)`
from_dict_service_default_zero(d, count) ==
    LET r == HospitalManagement(
                 [patient_id |-> IF "patient_id" \in DOMAIN d THEN <<d["patient_id"]>> ELSE None,
                  room_charge |-> Get(d, "room_charge", 0),
                  treatment_charge |-> Get(d, "treatment_charge", 0),
                  pharmacy_charge |-> Get(d, "pharmacy_charge", 0),
                  lab_charge |-> Get(d, "lab_charge", 0),
                  service_charge |-> Get(d, "service_charge", 0),
                  name |-> Get(d, "name", ""),
                  age |-> Get(d, "age", 0),
                  address |-> Get(d, "address", ""),
                  admit_date |-> Get(d, "admit_date", ""),
                  discharge_date |-> Get(d, "discharge_date", ""),
                  bed_id |-> Get(d, "bed_id", None),
                  discharged |-> Get(d, "discharged", FALSE)], count)
        doc == Get(d, "assigned_doctor", None)
    IN  [inst |-> IF doc # None
                  THEN [r.inst EXCEPT !.assigned_doctor = <<Doctor_from_dict(doc[1])>>,
                                      !.doctor_fee = Get(d, "doctor_fee", 0)]
                  ELSE r.inst,
         count |-> r.count]

from_dict(d, count) ==
    LET r == HospitalManagement(
                 [patient_id |-> IF "patient_id" \in DOMAIN d THEN <<d["patient_id"]>> ELSE None,
                  room_charge |-> Get(d, "room_charge", 0),
                  treatment_charge |-> Get(d, "treatment_charge", 0),
                  pharmacy_charge |-> Get(d, "pharmacy_charge", 0),
                  lab_charge |-> Get(d, "lab_charge", 0),
                  service_charge |-> Get(d, "service_charge", 500),
                  name |-> Get(d, "name", ""),
                  age |-> Get(d, "age", 0),
                  address |-> Get(d, "address", ""),
                  admit_date |-> Get(d, "admit_date", ""),
                  discharge_date |-> Get(d, "discharge_date", ""),
                  bed_id |-> Get(d, "bed_id", None),
                  discharged |-> Get(d, "discharged", FALSE)], count)
        doc == Get(d, "assigned_doctor", None)
    IN  [inst |-> IF doc # None
                  THEN [r.inst EXCEPT !.assigned_doctor = <<Doctor_from_dict(doc[1])>>,
                                      !.doctor_fee = Get(d, "doctor_fee", 0)]
                  ELSE r.inst,
         count |-> r.count]

_ensure_not_discharged(self) == IF self.discharged THEN "RuntimeError" ELSE "none"

\* a value handed to int(): <<n>> when int() accepts it and gives n, NotANumber
\* when int() raises ValueError
NotANumber == <<>>

\* self.name is assigned before int(age) can raise
set_patient_data(self, name, age, address, admit_date, discharge_date) ==
    IF _ensure_not_discharged(self) # "none" THEN Raise(self, "RuntimeError")
    ELSE IF age = NotANumber THEN Raise([self EXCEPT !.name = name], "ValueError")
    ELSE Ok([self EXCEPT !.name = name, !.age = age[1], !.address = address,
                         !.admit_date = admit_date, !.discharge_date = discharge_date])

set_bed_choice(self, bed_id, nights) ==
    IF _ensure_not_discharged(self) # "none" THEN Raise(self, "RuntimeError")
    ELSE IF ~Truthy(bed_id) THEN Raise(self, "ValueError")
    ELSE LET tname == <<Head(bed_id)>>      \* bed_id.split("-")[0]
         IN  IF tname \notin {<<"ICU">>, <<"Private">>, <<"Semi", "Private">>, <<"General">>}
             THEN Raise(self, "ValueError")
             ELSE LET rate == IF tname = <<"ICU">> THEN 12000
                              ELSE IF tname = <<"Private">> THEN 8000
                              ELSE IF tname = <<"Semi", "Private">> THEN 5000
                              ELSE 3000
                  IN  Ok([self EXCEPT !.room_charge = rate * nights, !.bed_id = bed_id])

add_treatment_item(self, choice, qty) ==
    IF _ensure_not_discharged(self) # "none" THEN Raise(self, "RuntimeError")
    ELSE IF choice \in DOMAIN treatment_prices
         THEN Ok([self EXCEPT !.treatment_charge = @ + treatment_prices[choice] * qty])
         ELSE Raise(self, "ValueError")

\* add_pharmacy_item that charges one unit whatever the quantity
add_pharmacy_item_single_unit(self, choice, qty) ==
    IF _ensure_not_discharged(self) # "none" THEN Raise(self, "RuntimeError")
    ELSE IF choice \in DOMAIN pharmacy_prices
         THEN Ok([self EXCEPT !.pharmacy_charge = @ + pharmacy_prices[choice]])
         ELSE Raise(self, "ValueError")

add_pharmacy_item(self, choice, qty) ==
    IF _ensure_not_discharged(self) # "none" THEN Raise(self, "RuntimeError")
    ELSE IF choice \in DOMAIN pharmacy_prices
         THEN Ok([self EXCEPT !.pharmacy_charge = @ + pharmacy_prices[choice] * qty])
         ELSE Raise(self, "ValueError")

\* add_lab_test without its call of _ensure_not_discharged
add_lab_test_unguarded(self, choice, qty) ==
    IF choice \in DOMAIN lab_prices
    THEN Ok([self EXCEPT !.lab_charge = @ + lab_prices[choice] * qty])
    ELSE Raise(self, "ValueError")

add_lab_test(self, choice, qty) ==
    IF _ensure_not_discharged(self) # "none" THEN Raise(self, "RuntimeError")
    ELSE IF choice \in DOMAIN lab_prices
         THEN Ok([self EXCEPT !.lab_charge = @ + lab_prices[choice] * qty])
         ELSE Raise(self, "ValueError")

\* assign_doctor that leaves the fee of the earlier doctor in place
assign_doctor_keeps_fee(self, doctor_id) ==
    IF _ensure_not_discharged(self) # "none" THEN Raise(self, "RuntimeError")
    ELSE IF \E k \in DOMAIN DOCTORS : DOCTORS[k].id = doctor_id
         THEN LET d == DOCTORS[CHOOSE k \in DOMAIN DOCTORS : DOCTORS[k].id = doctor_id]
              IN  Ok([self EXCEPT !.assigned_doctor = <<d>>])
         ELSE Raise(self, "ValueError")

assign_doctor(self, doctor_id) ==
    IF _ensure_not_discharged(self) # "none" THEN Raise(self, "RuntimeError")
    ELSE IF \E k \in DOMAIN DOCTORS : DOCTORS[k].id = doctor_id
         THEN LET d == DOCTORS[CHOOSE k \in DOMAIN DOCTORS :
                                  /\ DOCTORS[k].id = doctor_id
                                  /\ \A j \in 1..(k - 1) : DOCTORS[j].id # doctor_id]
              IN  Ok([self EXCEPT !.assigned_doctor = <<d>>, !.doctor_fee = d.fee])
         ELSE Raise(self, "ValueError")

\* set_doctor that leaves doctor_fee as it was
set_doctor_keeps_fee(self, name, fee, specialty) ==
    IF _ensure_not_discharged(self) # "none" THEN Raise(self, "RuntimeError")
    ELSE Ok([self EXCEPT !.assigned_doctor = <<Doctor(0, name, specialty, fee)>>])

set_doctor(self, name, fee, specialty) ==
    IF _ensure_not_discharged(self) # "none" THEN Raise(self, "RuntimeError")
    ELSE Ok([self EXCEPT !.assigned_doctor = <<Doctor(0, name, specialty, fee)>>,
                         !.doctor_fee = fee])

\* discharge that leaves doctor_fee as it is
discharge_keeps_doctor_fee(self, discharge_date) ==
    IF self.discharged THEN Ok(self)
    ELSE Ok([self EXCEPT !.discharged = TRUE,
                         !.discharge_date = IF discharge_date # "" THEN discharge_date ELSE @,
                         !.room_charge = 0,
                         !.treatment_charge = 0,
                         !.pharmacy_charge = 0,
                         !.lab_charge = 0])

\* discharge that writes the date before it looks at the discharged flag
discharge_redates(self, discharge_date) ==
    LET dated == [self EXCEPT !.discharge_date =
                                 IF discharge_date # "" THEN discharge_date ELSE @]
    IN  IF self.discharged THEN Ok(dated)
        ELSE Ok([dated EXCEPT !.discharged = TRUE,
                              !.room_charge = 0,
                              !.treatment_charge = 0,
                              !.pharmacy_charge = 0,
                              !.lab_charge = 0,
                              !.doctor_fee = 0])

\* discharge that also clears the bed and the doctor of the record
discharge_clears_bed_and_doctor(self, discharge_date) ==
    IF self.discharged THEN Ok(self)
    ELSE Ok([self EXCEPT !.discharged = TRUE,
                         !.discharge_date = IF discharge_date # "" THEN discharge_date ELSE @,
                         !.room_charge = 0,
                         !.treatment_charge = 0,
                         !.pharmacy_charge = 0,
                         !.lab_charge = 0,
                         !.doctor_fee = 0,
                         !.bed_id = None,
                         !.assigned_doctor = None])

\* discharge(discharge_date = None, zero_out_charges = True); the date is a plain
\* string, "" standing for both None and the empty string (`if discharge_date:`)
discharge(self, discharge_date) ==
    IF self.discharged THEN Ok(self)
    ELSE Ok([self EXCEPT !.discharged = TRUE,
                         !.discharge_date = IF discharge_date # "" THEN discharge_date ELSE @,
                         !.room_charge = 0,
                         !.treatment_charge = 0,
                         !.pharmacy_charge = 0,
                         !.lab_charge = 0,
                         !.doctor_fee = 0])

\* get_bill_text that reports the subtotal as the grand total
get_bill_text_without_service(self) ==
    LET subtotal == self.room_charge + self.treatment_charge + self.pharmacy_charge
                        + self.lab_charge + self.doctor_fee
    IN  [shown |-> TRUE,
         patient_id |-> self.patient_id,
         room |-> self.room_charge,
         treatment |-> self.treatment_charge,
         pharmacy |-> self.pharmacy_charge,
         lab |-> self.lab_charge,
         doctor_fee |-> IF self.assigned_doctor # None THEN self.doctor_fee ELSE 0,
         subtotal |-> subtotal,
         service |-> self.service_charge,
         grand |-> subtotal]

\* the figures get_bill_text writes into its lines
get_bill_text(self) ==
    LET subtotal == self.room_charge + self.treatment_charge + self.pharmacy_charge
                        + self.lab_charge + self.doctor_fee
    IN  [shown |-> TRUE,
         patient_id |-> self.patient_id,
         room |-> self.room_charge,
         treatment |-> self.treatment_charge,
         pharmacy |-> self.pharmacy_charge,
         lab |-> self.lab_charge,
         doctor_fee |-> IF self.assigned_doctor # None THEN self.doctor_fee ELSE 0,
         subtotal |-> subtotal,
         service |-> self.service_charge,
         grand |-> subtotal + self.service_charge]

\* the figures display_bill prints
display_bill(self) ==
    LET subtotal == self.room_charge + self.treatment_charge + self.pharmacy_charge
                        + self.lab_charge + self.doctor_fee
    IN  [shown |-> TRUE,
         patient_id |-> self.patient_id,
         room |-> self.room_charge,
         treatment |-> self.treatment_charge,
         pharmacy |-> self.pharmacy_charge,
         lab |-> self.lab_charge,
         doctor_fee |-> self.doctor_fee,
         subtotal |-> subtotal,
         service |-> self.service_charge,
         grand |-> subtotal + self.service_charge]

NoBill ==
    [shown |-> FALSE, patient_id |-> 0, room |-> 0, treatment |-> 0, pharmacy |-> 0,
     lab |-> 0, doctor_fee |-> 0, subtotal |-> 0, service |-> 0, grand |-> 0]

\* f"{tname}-{i}" for i in range(1, BEDS_PER_TYPE + 1), for every bed type
BedIdLists ==
    [idx \in DOMAIN BED_TYPES |->
        [i \in 1..BEDS_PER_TYPE |-> BED_TYPES[idx] \o <<ToString(i)>>]]

_all_bed_ids_for_type(btype_index) == BedIdLists[btype_index]

\* an allocator that lists every bed, used or not
compute_available_beds_unfiltered(patients_list) ==
    [idx \in DOMAIN BED_TYPES |-> _all_bed_ids_for_type(idx)]

\* patients_list: sequence of dicts; the result maps the index of a bed type
\* (the code keys it by BED_TYPES[idx]) to the list of its unused bed ids
compute_available_beds(patients_list) ==
    LET used == {patients_list[k]["bed_id"] :
                    k \in {j \in DOMAIN patients_list :
                              /\ Truthy(Get(patients_list[j], "bed_id", None))
                              /\ ~Get(patients_list[j], "discharged", FALSE)}}
        unused(b) == b \notin used
    IN  [idx \in DOMAIN BED_TYPES |-> SelectSeq(_all_bed_ids_for_type(idx), unused)]

-----------------------------------------------------------------------------
(* Persistence helpers *)

\* The file is [exists, parses, items]: parses says that it can be opened and
\* that json.load accepts its bytes, items is the JSON document it holds.
load_data(f) ==
    IF ~f.exists THEN <<>>
    ELSE IF ~f.parses THEN <<>>         \* except Exception: return []
    ELSE f.items

\* a save that writes the newest record alone
save_data_newest_only(patients_list) ==
    [exists |-> TRUE, parses |-> TRUE,
     items |-> IF patients_list = <<>> THEN <<>>
               ELSE <<to_dict(patients_list[Len(patients_list)])>>]

\* a save that leaves discharged records out of the file
save_data_active_only(patients_list) ==
    [exists |-> TRUE, parses |-> TRUE,
     items |-> LET active(r) == ~r.discharged
               IN  [k \in DOMAIN SelectSeq(patients_list, active) |->
                       to_dict(SelectSeq(patients_list, active)[k])]]

save_data(patients_list) ==
    [exists |-> TRUE, parses |-> TRUE,
     items |-> [k \in DOMAIN patients_list |-> to_dict(patients_list[k])]]

\* an element of a JSON list that is not an object (a number, a string, null)
NotADict == [json |-> "number"]

\* [HospitalManagement.from_dict(d) for d in raw], threading patient_count;
\* d.get of an element that is no dict raises AttributeError
RECURSIVE from_dicts(_, _)
from_dicts(raw, count) ==
    IF raw = <<>> THEN [list |-> <<>>, count |-> count, exc |-> "none"]
    ELSE IF Head(raw) = NotADict
    THEN [list |-> <<>>, count |-> count, exc |-> "AttributeError"]
    ELSE LET h == from_dict(Head(raw), count)
             t == from_dicts(Tail(raw), h.count)
         IN  [list |-> IF t.exc = "none" THEN <<h.inst>> \o t.list ELSE <<>>,
              count |-> t.count, exc |-> t.exc]

-----------------------------------------------------------------------------
(* Sessions, inputs and the common shape of a handler run *)

AllSessions == {1, 2}

Today == "2026-11-02"

Identity(name, age, address, admit_date) ==
    [name |-> name, age |-> age, address |-> address, admit_date |-> admit_date]

IdA == Identity("Ann", 30, "Pune", "2026-10-30")
IdB == Identity("Bob", 41, "Pune", "2026-11-01")

\* s: the session; op: the handler or method; i: the index of the record it acted
\* on (0: none); exc: the exception it ended with, or the notice it gave, "none"
\* otherwise; arg: the date passed to discharge; bill: the bill it wrote
Event(s, op, i, exc, arg, bill) ==
    [s |-> s, op |-> op, i |-> i, exc |-> exc, arg |-> arg, bill |-> bill]

Init ==
    /\ file = [exists |-> FALSE, parses |-> FALSE, items |-> <<>>]
    /\ fe = [s \in AllSessions |-> "none"]
    /\ pc = [s \in AllSessions |-> "off"]
    /\ patients = [s \in AllSessions |-> <<>>]
    /\ cur = [s \in AllSessions |-> 0]
    /\ patient_count = [s \in AllSessions |-> 0]
    /\ event = Event(0, "init", 0, "none", "", NoBill)
    /\ steps = 0

\* one more handler run
Step == steps < MaxSteps /\ steps' = steps + 1

\* A process starts (or is restarted) running front-end f: a fresh class
\* variable patient_count = 0, then [from_dict(d) for d in load_data()], which
\* no front-end guards: an exception there ends the start
Start(s, f) ==
    LET r == from_dicts(load_data(file), 0)
    IN  /\ Step
        /\ fe' = [fe EXCEPT ![s] = f]
        /\ pc' = [pc EXCEPT ![s] = IF r.exc = "none" THEN "run" ELSE "crashed"]
        /\ patients' = [patients EXCEPT ![s] = r.list]
        /\ patient_count' = [patient_count EXCEPT ![s] = r.count]
        /\ cur' = [cur EXCEPT ![s] = 0]
        /\ event' = Event(s, "start", 0, r.exc, "", NoBill)
        /\ UNCHANGED file

Running(s, f) == fe[s] = f /\ pc[s] = "run"

-----------------------------------------------------------------------------
(* Programmatic callers: the methods of HospitalManagement called directly *)
(* on the records of a list.                                               *)

ApiBedIds ==
    {_all_bed_ids_for_type(t)[n] : t \in DOMAIN BED_TYPES, n \in 1..MaxBedPick}
        \cup {<<"Ward", "7">>, <<"">>, None}
ApiNights == {3, -1}
ApiChoices == {2, 6}
ApiQtys == {2, -1}
ApiDoctorIds == {2, 9}
ApiFees == {700, -100}
ApiAges == {<<30>>, <<-5>>, NotANumber}
ApiDates == {"", Today}

ApiCall(s, i, op, r) ==
    /\ Step
    /\ patients' = [patients EXCEPT ![s][i] = r.self]
    /\ event' = Event(s, op, i, r.exc, "", NoBill)
    /\ UNCHANGED <<file, fe, pc, cur, patient_count>>

ApiNew(s) ==
    /\ Running(s, "api")
    /\ Step
    /\ Len(patients[s]) < MaxPatients
    /\ LET r == HospitalManagement(NoArgs, patient_count[s])
       IN  /\ patients' = [patients EXCEPT ![s] = Append(@, r.inst)]
           /\ patient_count' = [patient_count EXCEPT ![s] = r.count]
           /\ event' = Event(s, "__init__", Len(patients[s]) + 1, "none", "", NoBill)
    /\ UNCHANGED <<file, fe, pc, cur>>

ApiSetPatientData(s, i, idn, age, dd) ==
    /\ Running(s, "api")
    /\ ApiCall(s, i, "set_patient_data",
               set_patient_data(patients[s][i], idn.name, age, idn.address,
                                idn.admit_date, dd))

ApiSetBedChoice(s, i, b, n) ==
    /\ Running(s, "api")
    /\ ApiCall(s, i, "set_bed_choice", set_bed_choice(patients[s][i], b, n))

ApiAddTreatmentItem(s, i, c, q) ==
    /\ Running(s, "api")
    /\ ApiCall(s, i, "add_treatment_item", add_treatment_item(patients[s][i], c, q))

ApiAddPharmacyItem(s, i, c, q) ==
    /\ Running(s, "api")
    /\ ApiCall(s, i, "add_pharmacy_item", add_pharmacy_item(patients[s][i], c, q))

ApiAddLabTest(s, i, c, q) ==
    /\ Running(s, "api")
    /\ ApiCall(s, i, "add_lab_test", add_lab_test(patients[s][i], c, q))

ApiAssignDoctor(s, i, d) ==
    /\ Running(s, "api")
    /\ ApiCall(s, i, "assign_doctor", assign_doctor(patients[s][i], d))

ApiSetDoctor(s, i, fee) ==
    /\ Running(s, "api")
    /\ ApiCall(s, i, "set_doctor", set_doctor(patients[s][i], "Dr. X", fee, "ENT"))

ApiDischarge(s, i, dd) ==
    /\ Running(s, "api")
    /\ Step
    /\ patients' = [patients EXCEPT ![s][i] = discharge(@, dd).self]
    /\ event' = Event(s, "discharge", i,
                      IF patients[s][i].discharged THEN "already discharged" ELSE "none",
                      dd, NoBill)
    /\ UNCHANGED <<file, fe, pc, cur, patient_count>>

ApiGetBillText(s, i) ==
    /\ Running(s, "api")
    /\ Step
    /\ event' = Event(s, "get_bill_text", i, "none", "", get_bill_text(patients[s][i]))
    /\ UNCHANGED <<file, fe, pc, patients, cur, patient_count>>

ApiDisplayBill(s, i) ==
    /\ Running(s, "api")
    /\ Step
    /\ event' = Event(s, "display_bill", i, "none", "", display_bill(patients[s][i]))
    /\ UNCHANGED <<file, fe, pc, patients, cur, patient_count>>

NextApi ==
    \E s \in {1} :
        \/ Start(s, "api")
        \/ ApiNew(s)
        \/ \E i \in DOMAIN patients[s] :
              \/ \E idn \in {IdA}, age \in ApiAges, dd \in ApiDates :
                    ApiSetPatientData(s, i, idn, age, dd)
              \/ \E b \in ApiBedIds, n \in ApiNights : ApiSetBedChoice(s, i, b, n)
              \/ \E c \in ApiChoices, q \in ApiQtys : ApiAddTreatmentItem(s, i, c, q)
              \/ \E c \in ApiChoices, q \in ApiQtys : ApiAddPharmacyItem(s, i, c, q)
              \/ \E c \in ApiChoices, q \in ApiQtys : ApiAddLabTest(s, i, c, q)
              \/ \E d \in ApiDoctorIds : ApiAssignDoctor(s, i, d)
              \/ \E fee \in ApiFees : ApiSetDoctor(s, i, fee)
              \/ \E dd \in ApiDates : ApiDischarge(s, i, dd)
              \/ ApiGetBillText(s, i)
              \/ ApiDisplayBill(s, i)

SpecApi == Init /\ [][NextApi]_vars

-----------------------------------------------------------------------------
(* Terminal front-end: main() and the interactive methods it calls.  A     *)
(* typed line that int() accepts is <<n>>; one it rejects is NotANumber.   *)

\* input_patient_data with the five lines the user types
input_patient_data(self, name, age_typed, address, admit_date, discharge_date) ==
    IF self.discharged THEN Ok(self)
    ELSE Ok([self EXCEPT !.name = name,
                         !.age = IF age_typed = NotANumber THEN 0 ELSE age_typed[1],
                         !.address = address,
                         !.admit_date = admit_date,
                         !.discharge_date = discharge_date])

\* select_bed with the lines typed for the bed type, the bed id and the nights
select_bed(self, patients_list, choice_typed, bed_choice, nights_typed) ==
    IF _ensure_not_discharged(self) # "none" THEN Raise(self, "RuntimeError")
    ELSE LET available == compute_available_beds(patients_list)
         IN  IF choice_typed = NotANumber \/ choice_typed[1] \notin DOMAIN BED_TYPES
             THEN Notice(self, "Invalid input. Please enter numbers.")
             ELSE LET choice == choice_typed[1]
                  IN  IF available[choice] = <<>>
                      THEN Notice(self, "No beds available of this type.")
                      ELSE IF nights_typed = NotANumber THEN Notice(self, "Invalid input.")
                      ELSE IF bed_choice \notin Range(available[choice])
                      THEN Notice(self, "Invalid or already used bed id")
                      ELSE Ok([self EXCEPT
                                  !.room_charge = (IF choice = 1 THEN 12000
                                                   ELSE IF choice = 2 THEN 8000
                                                   ELSE IF choice = 3 THEN 5000
                                                   ELSE 3000) * nights_typed[1],
                                  !.bed_id = bed_choice])

\* one turn of the loop of treatment_menu / pharmacy_bill / lab_tests for a
\* choice other than 6: c and qty as typed
treatment_menu(self, c_typed, qty_typed) ==
    IF c_typed # NotANumber /\ c_typed[1] \in 1..5
    THEN [self EXCEPT !.treatment_charge =
              @ + treatment_prices[c_typed[1]] * (IF qty_typed = NotANumber THEN 1 ELSE qty_typed[1])]
    ELSE self

pharmacy_bill(self, c_typed, qty_typed) ==
    IF c_typed # NotANumber /\ c_typed[1] \in 1..5
    THEN [self EXCEPT !.pharmacy_charge =
              @ + pharmacy_prices[c_typed[1]] * (IF qty_typed = NotANumber THEN 1 ELSE qty_typed[1])]
    ELSE self

lab_tests(self, c_typed, qty_typed) ==
    IF c_typed # NotANumber /\ c_typed[1] \in 1..5
    THEN [self EXCEPT !.lab_charge =
              @ + lab_prices[c_typed[1]] * (IF qty_typed = NotANumber THEN 1 ELSE qty_typed[1])]
    ELSE self

CliBedTypes == {<<1>>, <<3>>, <<7>>}
CliNights == {<<3>>, <<-1>>}
CliItems == {<<2>>, <<7>>, NotANumber}
CliQtys == {<<2>>, <<-1>>, NotANumber}
CliDoctorIds == {<<2>>, <<9>>, NotANumber}
CliDates == {"", Today}
CliOtherChoices == {<<7>>, <<12>>, NotANumber}
CliAges == {<<30>>, <<-5>>, NotANumber}

AtMenu(s) == fe[s] = "cli" /\ pc[s] = "run"

\* option 1
CliCreate(s, idn, age_typed, dd) ==
    /\ AtMenu(s) /\ Step
    /\ Len(patients[s]) < MaxPatients
    /\ LET n == HospitalManagement(NoArgs, patient_count[s])
           r == input_patient_data(n.inst, idn.name, age_typed, idn.address, idn.admit_date, dd)
           list == Append(patients[s], r.self)
       IN  /\ patients' = [patients EXCEPT ![s] = list]
           /\ patient_count' = [patient_count EXCEPT ![s] = n.count]
           /\ cur' = [cur EXCEPT ![s] = Len(list)]
           /\ file' = save_data(list)
           /\ event' = Event(s, "cli_create", Len(list), "none", "", NoBill)
    /\ UNCHANGED <<fe, pc>>

\* options 2..10 without a current patient: "please enter Patient data first"
CliNoCurrent(s, b) ==
    /\ AtMenu(s) /\ Step
    /\ cur[s] = 0
    /\ event' = Event(s, "cli_no_current", 0, "none", "", NoBill)
    /\ UNCHANGED <<file, fe, pc, patients, cur, patient_count>>

\* option 2: the RuntimeError of select_bed is not caught and ends the process
CliSelectBed(s, choice_typed, bed_choice, nights_typed) ==
    /\ AtMenu(s) /\ Step
    /\ cur[s] # 0
    /\ LET r == select_bed(patients[s][cur[s]], [k \in DOMAIN patients[s] |-> to_dict(patients[s][k])],
                           choice_typed, bed_choice, nights_typed)
           list == [patients[s] EXCEPT ![cur[s]] = r.self]
       IN  /\ patients' = [patients EXCEPT ![s] = list]
           /\ file' = IF r.exc = "none" THEN save_data(list) ELSE file
           /\ pc' = [pc EXCEPT ![s] = IF r.exc = "none" THEN "run" ELSE "exited"]
           /\ event' = Event(s, "cli_select_bed", cur[s], Outcome(r), "", NoBill)
    /\ UNCHANGED <<fe, cur, patient_count>>

\* options 3, 4, 5: the guard at the head of the menu method; its RuntimeError is
\* caught and printed
CliEnterMenu(s, menu) ==
    /\ AtMenu(s) /\ Step
    /\ cur[s] # 0
    /\ LET exc == _ensure_not_discharged(patients[s][cur[s]])
       IN  /\ pc' = [pc EXCEPT ![s] = IF exc = "none" THEN menu ELSE "run"]
           /\ event' = Event(s, "cli_enter_" \o menu, cur[s], exc, "", NoBill)
    /\ UNCHANGED <<file, fe, patients, cur, patient_count>>

\* a turn of the menu loop that is not the exit choice
CliMenuTurn(s, c_typed, qty_typed) ==
    /\ fe[s] = "cli" /\ pc[s] \in {"treatment", "pharmacy", "lab"} /\ Step
    /\ c_typed # <<6>>
    /\ LET self == patients[s][cur[s]]
           after == IF pc[s] = "treatment" THEN treatment_menu(self, c_typed, qty_typed)
                    ELSE IF pc[s] = "pharmacy" THEN pharmacy_bill(self, c_typed, qty_typed)
                    ELSE lab_tests(self, c_typed, qty_typed)
       IN  /\ patients' = [patients EXCEPT ![s][cur[s]] = after]
           /\ event' = Event(s, "cli_turn_" \o pc[s], cur[s],
                             IF c_typed = NotANumber THEN "Please enter a number"
                             ELSE IF c_typed[1] \notin 1..5 THEN "Invalid option"
                             ELSE "none", "", NoBill)
    /\ UNCHANGED <<file, fe, pc, cur, patient_count>>

\* choice 6 of the menu loop: back in main(), which saves
CliMenuExit(s) ==
    /\ fe[s] = "cli" /\ pc[s] \in {"treatment", "pharmacy", "lab"} /\ Step
    /\ pc' = [pc EXCEPT ![s] = "run"]
    /\ file' = save_data(patients[s])
    /\ event' = Event(s, "cli_exit_" \o pc[s], cur[s], "none", "", NoBill)
    /\ UNCHANGED <<fe, patients, cur, patient_count>>

\* option 6
CliShowBill(s) ==
    /\ AtMenu(s) /\ Step
    /\ cur[s] # 0
    /\ event' = Event(s, "cli_show_bill", cur[s], "none", "", display_bill(patients[s][cur[s]]))
    /\ UNCHANGED <<file, fe, pc, patients, cur, patient_count>>

\* options 7 and 8, a number off the menu, a line that is no number
CliOther(s, b_typed) ==
    /\ AtMenu(s) /\ Step
    /\ event' = Event(s, "cli_other", 0,
                      IF b_typed = NotANumber THEN "Please enter a number from the menu"
                      ELSE IF b_typed[1] \notin 1..11 THEN "Choose a valid menu option"
                      ELSE "none", "", NoBill)
    /\ UNCHANGED <<file, fe, pc, patients, cur, patient_count>>

\* option 9: every exception is caught; the save follows a successful assignment
CliAssignDoctor(s, did_typed) ==
    /\ AtMenu(s) /\ Step
    /\ cur[s] # 0
    /\ LET r == IF did_typed = NotANumber THEN Raise(patients[s][cur[s]], "ValueError")
                ELSE assign_doctor(patients[s][cur[s]], did_typed[1])
           list == [patients[s] EXCEPT ![cur[s]] = r.self]
       IN  /\ patients' = [patients EXCEPT ![s] = list]
           /\ file' = IF r.exc = "none" THEN save_data(list) ELSE file
           /\ event' = Event(s, "cli_assign_doctor", cur[s], r.exc, "", NoBill)
    /\ UNCHANGED <<fe, pc, cur, patient_count>>

\* option 10 acting on the first record of the list instead of `current`
CliDischarge_first_record(s, ddate) ==
    /\ AtMenu(s) /\ Step
    /\ cur[s] # 0
    /\ LET r == discharge(patients[s][1], ddate)
           list == [patients[s] EXCEPT ![1] = r.self]
       IN  /\ patients' = [patients EXCEPT ![s] = list]
           /\ file' = save_data(list)
           /\ event' = Event(s, "cli_discharge", 1,
                             IF patients[s][1].discharged THEN "already discharged"
                             ELSE "none", ddate, NoBill)
    /\ UNCHANGED <<fe, pc, cur, patient_count>>

\* option 10
CliDischarge(s, ddate) ==
    /\ AtMenu(s) /\ Step
    /\ cur[s] # 0
    /\ LET r == discharge(patients[s][cur[s]], ddate)
           list == [patients[s] EXCEPT ![cur[s]] = r.self]
       IN  /\ patients' = [patients EXCEPT ![s] = list]
           /\ file' = save_data(list)
           /\ event' = Event(s, "cli_discharge", cur[s],
                             IF patients[s][cur[s]].discharged THEN "already discharged"
                             ELSE "none", ddate, NoBill)
    /\ UNCHANGED <<fe, pc, cur, patient_count>>

\* option 11
CliExit(s) ==
    /\ AtMenu(s) /\ Step
    /\ file' = save_data(patients[s])
    /\ pc' = [pc EXCEPT ![s] = "exited"]
    /\ event' = Event(s, "cli_exit", 0, "none", "", NoBill)
    /\ UNCHANGED <<fe, patients, cur, patient_count>>

\* the bed ids the user may type at the prompt of select_bed: among the first
\* listed of the chosen type, or an id that is not on the list
CliBedChoices(s, choice_typed) ==
    (IF choice_typed # NotANumber /\ choice_typed[1] \in DOMAIN BED_TYPES
     THEN Range(FirstN(compute_available_beds(
                           [k \in DOMAIN patients[s] |-> to_dict(patients[s][k])])[choice_typed[1]],
                       MaxBedPick))
     ELSE {}) \cup {<<"Ward", "7">>}

Cli(s) ==
    \/ \E idn \in {IdA}, age_typed \in CliAges, dd \in {""} :
          CliCreate(s, idn, age_typed, dd)
    \/ \E b \in {2} : CliNoCurrent(s, b)
    \/ \E choice_typed \in CliBedTypes, nights_typed \in CliNights :
          \E bed_choice \in CliBedChoices(s, choice_typed) :
             CliSelectBed(s, choice_typed, bed_choice, nights_typed)
    \/ \E menu \in {"treatment", "pharmacy", "lab"} : CliEnterMenu(s, menu)
    \/ \E c_typed \in CliItems, qty_typed \in CliQtys : CliMenuTurn(s, c_typed, qty_typed)
    \/ CliMenuExit(s)
    \/ CliShowBill(s)
    \/ \E b_typed \in CliOtherChoices : CliOther(s, b_typed)
    \/ \E did_typed \in CliDoctorIds : CliAssignDoctor(s, did_typed)
    \/ \E ddate \in CliDates : CliDischarge(s, ddate)
    \/ CliExit(s)

-----------------------------------------------------------------------------
(* Form front-end: hospital_streamlit.main().  A click reruns the script   *)
(* from the top; the handler of the clicked button runs in its place in    *)
(* the script, and an exception it does not catch ends the run there.      *)

treatment_map == << <<"Consultations", 500>>, <<"Minor Procedures", 4000>>,
                    <<"Major Surgeries", 25000>>, <<"Physio Sessions", 800>>,
                    <<"ICU Care", 5000>> >>

pharmacy_map == << <<"Paracetamol", 10>>, <<"Antibiotic Course", 400>>, <<"Painkiller", 50>>,
                   <<"Injection", 150>>, <<"Medicine Kit", 700>> >>

lab_map == << <<"Blood Test", 400>>, <<"X-Ray", 800>>, <<"MRI", 7000>>, <<"CT Scan", 5000>>,
              <<"Ultrasound", 1200>> >>

\* the dict {name: qty} after `items[name] = int(qty)` for the five entries of a map
ItemsDict(map, qtys) ==
    [name \in {map[k][1] : k \in DOMAIN map} |->
        qtys[CHOOSE k \in DOMAIN map : map[k][1] = name]]

\* sum(items[name] * price for name, price in map.values())
ItemsTotal(map, items) == SumSeq([k \in DOMAIN map |-> items[map[k][1]] * map[k][2]])

\* `if inst and not hasattr(inst, "..._items"): inst..._items = {}`, three times
init_items(self) ==
    [self EXCEPT !.treatment_items = IF @ = None THEN <<NoArgs>> ELSE @,
                 !.pharmacy_items = IF @ = None THEN <<NoArgs>> ELSE @,
                 !.lab_items = IF @ = None THEN <<NoArgs>> ELSE @]

\* the body of the three "Add ..." handlers for a record that is not discharged
add_treatments(self, qtys) ==
    LET items == ItemsDict(treatment_map, qtys)
    IN  [self EXCEPT !.treatment_items = <<items>>,
                     !.treatment_charge = ItemsTotal(treatment_map, items)]

add_pharmacy(self, qtys) ==
    LET items == ItemsDict(pharmacy_map, qtys)
    IN  [self EXCEPT !.pharmacy_items = <<items>>,
                     !.pharmacy_charge = ItemsTotal(pharmacy_map, items)]

add_lab_tests(self, qtys) ==
    LET items == ItemsDict(lab_map, qtys)
    IN  [self EXCEPT !.lab_items = <<items>>,
                     !.lab_charge = ItemsTotal(lab_map, items)]

\* s.startswith(prefix) on dash-split strings whose parts are type words and numbers
startswith(str, prefix) ==
    Len(prefix) <= Len(str) /\ SubSeq(str, 1, Len(prefix)) = prefix

\* the options of the "Choose Bed" selectbox
form_beds_for_type(list, inst_idx, bed_type) ==
    LET avail == compute_available_beds([k \in DOMAIN list |-> to_dict(list[k])])[bed_type]
        inst_bed == IF inst_idx = 0 THEN None ELSE list[inst_idx].bed_id
    IN  IF Truthy(inst_bed) /\ startswith(inst_bed, BED_TYPES[bed_type])
           /\ inst_bed \notin Range(avail)
        THEN <<inst_bed>> \o avail
        ELSE avail

FormBedTypes == {1, 3}
FormQtys == {<<0, 2, 0, 0, 0>>, <<1, 0, 0, 0, 1>>}
FormNights == {3}
FormDoctors == {0, 2}

InForm(s) == fe[s] = "form" /\ pc[s] = "run"

\* the rest of a run that got past the sidebar and selection handlers: the three
\* hasattr blocks act on st.session_state.inst
WithItems(list, inst_idx) ==
    IF inst_idx = 0 THEN list ELSE [list EXCEPT ![inst_idx] = init_items(@)]

\* "Create Patient" in the sidebar
FormCreate(s, name, idn) ==
    /\ InForm(s) /\ Step
    /\ IF name = ""
       THEN /\ patients' = [patients EXCEPT ![s] = WithItems(@, cur[s])]
            /\ event' = Event(s, "form_create", 0, "no name", "", NoBill)
            /\ UNCHANGED <<file, cur, patient_count>>
       ELSE IF cur[s] = 0
       THEN /\ Len(patients[s]) < MaxPatients
            /\ LET n == HospitalManagement(NoArgs, patient_count[s])
                   r == set_patient_data(n.inst, name, <<idn.age>>, idn.address, idn.admit_date, "")
                   list == Append(patients[s], r.self)
               IN  /\ patients' = [patients EXCEPT ![s] = WithItems(list, Len(list))]
                   /\ patient_count' = [patient_count EXCEPT ![s] = n.count]
                   /\ cur' = [cur EXCEPT ![s] = Len(list)]
                   /\ file' = save_data(list)
                   /\ event' = Event(s, "form_create", Len(list), r.exc, "", NoBill)
       ELSE LET r == set_patient_data(patients[s][cur[s]], name, <<idn.age>>, idn.address,
                                      idn.admit_date, "")
                list == [patients[s] EXCEPT ![cur[s]] = r.self]
            IN  /\ patients' = [patients EXCEPT ![s] =
                                   IF r.exc = "none" THEN WithItems(list, cur[s]) ELSE @]
                /\ file' = IF r.exc = "none" THEN save_data(list) ELSE file
                /\ event' = Event(s, "form_update", cur[s], r.exc, "", NoBill)
                /\ UNCHANGED <<cur, patient_count>>
    /\ UNCHANGED <<fe, pc>>

\* a button pressed while no patient is created or loaded: a warning
FormNoInst(s, button) ==
    /\ InForm(s) /\ Step
    /\ cur[s] = 0
    /\ event' = Event(s, "form_no_inst", 0, "none", "", NoBill)
    /\ UNCHANGED <<file, fe, pc, patients, cur, patient_count>>

\* "Assign Bed"
FormAssignBed(s, bed_type, bed_choice, nights) ==
    /\ InForm(s) /\ Step
    /\ cur[s] # 0
    /\ LET r == set_bed_choice(patients[s][cur[s]], bed_choice, nights)
           list == [patients[s] EXCEPT ![cur[s]] = r.self]
       IN  /\ patients' = [patients EXCEPT ![s] =
                              IF r.exc = "none" THEN WithItems(list, cur[s]) ELSE @]
           /\ file' = IF r.exc = "none" THEN save_data(list) ELSE file
           /\ event' = Event(s, "form_assign_bed", cur[s], r.exc, "", NoBill)
    /\ UNCHANGED <<fe, pc, cur, patient_count>>

\* "Assign Doctor": k = 0 is "(none)", else the k-th entry of doctor_names
FormAssignDoctor(s, k) ==
    /\ InForm(s) /\ Step
    /\ cur[s] # 0
    /\ IF k = 0
       THEN /\ patients' = [patients EXCEPT ![s] = WithItems(@, cur[s])]
            /\ event' = Event(s, "form_assign_doctor", cur[s], "no doctor", "", NoBill)
            /\ UNCHANGED file
       ELSE LET r == assign_doctor(patients[s][cur[s]], DOCTORS[k].id)
                list == [patients[s] EXCEPT ![cur[s]] = r.self]
            IN  /\ patients' = [patients EXCEPT ![s] =
                                   IF r.exc = "none" THEN WithItems(list, cur[s]) ELSE @]
                /\ file' = IF r.exc = "none" THEN save_data(list) ELSE file
                /\ event' = Event(s, "form_assign_doctor", cur[s], r.exc, "", NoBill)
    /\ UNCHANGED <<fe, pc, cur, patient_count>>

\* "Add Treatments", "Add Pharmacy", "Add Lab Tests"
FormAddItems(s, category, qtys) ==
    /\ InForm(s) /\ Step
    /\ cur[s] # 0
    /\ LET self == init_items(patients[s][cur[s]])
           after == IF self.discharged THEN self
                    ELSE IF category = "treatment" THEN add_treatments(self, qtys)
                    ELSE IF category = "pharmacy" THEN add_pharmacy(self, qtys)
                    ELSE add_lab_tests(self, qtys)
           list == [patients[s] EXCEPT ![cur[s]] = after]
       IN  /\ patients' = [patients EXCEPT ![s] = list]
           /\ file' = IF self.discharged THEN file ELSE save_data(list)
           /\ event' = Event(s, "form_add_" \o category, cur[s],
                             IF self.discharged THEN "discharged" ELSE "none", "", NoBill)
    /\ UNCHANGED <<fe, pc, cur, patient_count>>

\* "Show Bill" turning the bill on
FormShowBill(s) ==
    /\ InForm(s) /\ Step
    /\ cur[s] # 0
    /\ patients' = [patients EXCEPT ![s] = WithItems(@, cur[s])]
    /\ event' = Event(s, "form_show_bill", cur[s], "none", "", get_bill_text(patients[s][cur[s]]))
    /\ UNCHANGED <<file, fe, pc, cur, patient_count>>

\* "Load Patient Form" for the selected record, offered while it is not discharged
FormLoad(s, i) ==
    /\ InForm(s) /\ Step
    /\ ~patients[s][i].discharged
    /\ patients' = [patients EXCEPT ![s] = WithItems(WithItems(@, cur[s]), i)]
    /\ cur' = [cur EXCEPT ![s] = i]
    /\ event' = Event(s, "form_load", i, "none", "", NoBill)
    /\ UNCHANGED <<file, fe, pc, patient_count>>

\* "Discharge Patient" for the selected record, offered while it is not discharged
FormDischarge(s, i) ==
    /\ InForm(s) /\ Step
    /\ ~patients[s][i].discharged
    /\ LET r == discharge(WithItems(patients[s], cur[s])[i], Today)
           list == [WithItems(patients[s], cur[s]) EXCEPT ![i] = r.self]
       IN  /\ patients' = [patients EXCEPT ![s] = list]
           /\ file' = save_data(list)
           /\ event' = Event(s, "form_discharge", i, r.exc, Today, NoBill)
    /\ UNCHANGED <<fe, pc, cur, patient_count>>

\* the page opened anew: a new st.session_state in the same process
FormRefresh(s) ==
    /\ InForm(s) /\ Step
    /\ LET r == from_dicts(load_data(file), patient_count[s])
       IN  /\ patients' = [patients EXCEPT ![s] = r.list]
           /\ patient_count' = [patient_count EXCEPT ![s] = r.count]
           /\ pc' = [pc EXCEPT ![s] = IF r.exc = "none" THEN "run" ELSE "crashed"]
           /\ event' = Event(s, "form_refresh", 0, r.exc, "", NoBill)
    /\ cur' = [cur EXCEPT ![s] = 0]
    /\ UNCHANGED <<file, fe>>

Form(s) ==
    \/ \E name \in {"", "Ann"} : FormCreate(s, name, IdA)
    \/ \E name \in {"Bob"} : cur[s] # 0 /\ FormCreate(s, name, IdB)
    \/ \E button \in {"Assign Bed"} : FormNoInst(s, button)
    \/ \E bed_type \in FormBedTypes, nights \in FormNights :
          \E bed_choice \in Range(FirstN(form_beds_for_type(patients[s], cur[s], bed_type),
                                         MaxBedPick)) :
             FormAssignBed(s, bed_type, bed_choice, nights)
    \/ \E k \in FormDoctors : FormAssignDoctor(s, k)
    \/ \E category \in {"treatment", "pharmacy", "lab"}, qtys \in FormQtys :
          FormAddItems(s, category, qtys)
    \/ FormShowBill(s)
    \/ \E i \in DOMAIN patients[s] : FormLoad(s, i)
    \/ \E i \in DOMAIN patients[s] : FormDischarge(s, i)
    \/ FormRefresh(s)

-----------------------------------------------------------------------------
(* Web front-end of Hospital_management_project.py: streamlit_app().  The  *)
(* operations act on the record chosen in the "Choose patient" selectbox   *)
(* and are drawn only while that record is not discharged.  "Confirm       *)
(* Discharge" is drawn inside `if st.button("Discharge Patient")`: the     *)
(* click on it reruns the script with the outer button false, so its       *)
(* handler never runs and this front-end has no discharge.                 *)

\* `for idx, qty in enumerate(qtys, start=1): if qty: inst.add_..._item(idx, int(qty))`
RECURSIVE app_add_items(_, _, _, _)
app_add_items(self, category, qtys, idx) ==
    IF idx > Len(qtys) THEN Ok(self)
    ELSE IF qtys[idx] = 0 THEN app_add_items(self, category, qtys, idx + 1)
    ELSE LET r == IF category = "treatment" THEN add_treatment_item(self, idx, qtys[idx])
                  ELSE IF category = "pharmacy" THEN add_pharmacy_item(self, idx, qtys[idx])
                  ELSE add_lab_test(self, idx, qtys[idx])
         IN  IF r.exc # "none" THEN r
             ELSE app_add_items(r.self, category, qtys, idx + 1)

\* the options of the sidebar's "Choose available bed": the unused beds of the
\* type, with the value the widget holds put first when it is not among them.
\* The widget holds the bed last chosen there or, after "View Patient Info", the
\* bed of the viewed record.
app_beds_for_type(list, bed_type, cur_choice) ==
    LET avail == compute_available_beds([k \in DOMAIN list |-> to_dict(list[k])])[bed_type]
    IN  IF Truthy(cur_choice) /\ cur_choice \notin Range(avail)
        THEN <<cur_choice>> \o avail
        ELSE avail

\* the values of the edit widgets when "Save Updates" is pressed
EditForm(idn, dd, bed, room, treatment, pharmacy, lab, service, docsel, custdoc, custfee) ==
    [name |-> idn.name, age |-> idn.age, address |-> idn.address,
     admit_date |-> idn.admit_date, discharge_date |-> dd, bed |-> bed,
     room |-> room, treatment |-> treatment, pharmacy |-> pharmacy, lab |-> lab,
     service |-> service, docsel |-> docsel, custdoc |-> custdoc, custfee |-> custfee]

\* the body of the "Save Updates" handler
save_updates(self, f) ==
    LET a == [self EXCEPT !.name = f.name, !.age = f.age, !.address = f.address,
                          !.admit_date = f.admit_date, !.discharge_date = f.discharge_date,
                          !.bed_id = IF Truthy(f.bed) THEN f.bed ELSE None,
                          !.room_charge = f.room, !.treatment_charge = f.treatment,
                          !.pharmacy_charge = f.pharmacy, !.lab_charge = f.lab,
                          !.service_charge = f.service]
    IN  IF f.docsel # 0 THEN assign_doctor(a, DOCTORS[f.docsel].id)
        ELSE IF f.custdoc # "" THEN set_doctor(a, f.custdoc, f.custfee, "ENT")
        ELSE Ok([a EXCEPT !.assigned_doctor = None, !.doctor_fee = 0])

AppBedTypes == {1, 3}
AppQtys == {<<0, 2, 0, 0, 0>>}
AppDoctors == {<<0, "">>, <<2, "">>, <<0, "Dr. X">>}
AppNights == {3}
AppEdits ==
    {EditForm(IdB, "", <<"ICU", "1">>, 100, 0, 0, 0, 0, 0, "", 0),
     EditForm(IdA, Today, <<"Ward", "7">>, 36000, 8000, 400, 800, 500, 0, "Dr. X", 700)}

InApp(s) == fe[s] = "app" /\ pc[s] = "run"

\* the beds some record of the list holds
HeldBeds(list) == {list[k].bed_id : k \in {j \in DOMAIN list : Truthy(list[j].bed_id)}}

\* "Create Patient" in the sidebar: the id is taken by HospitalManagement()
\* before set_bed_choice can fail
AppCreate(s, idn, dd, bed_type, cur_choice, bed_choice, nights) ==
    /\ InApp(s) /\ Step
    /\ Len(patients[s]) < MaxPatients
    /\ LET n == HospitalManagement(NoArgs, patient_count[s])
           r1 == set_patient_data(n.inst, idn.name, <<idn.age>>, idn.address, idn.admit_date, dd)
           r == set_bed_choice(r1.self, bed_choice, nights)
           list == Append(patients[s], r.self)
       IN  /\ patient_count' = [patient_count EXCEPT ![s] = n.count]
           /\ patients' = [patients EXCEPT ![s] = IF r.exc = "none" THEN list ELSE @]
           /\ file' = IF r.exc = "none" THEN save_data(list) ELSE file
           /\ event' = Event(s, "app_create", IF r.exc = "none" THEN Len(list) ELSE 0,
                             r.exc, "", NoBill)
    /\ UNCHANGED <<fe, pc, cur>>

\* "View Patient Info": fills the widgets, changes no record
AppView(s, i) ==
    /\ InApp(s) /\ Step
    /\ event' = Event(s, "app_view", i, "none", "", NoBill)
    /\ UNCHANGED <<file, fe, pc, patients, cur, patient_count>>

\* "Add Treatments", "Add Pharmacy Items", "Add Lab Tests"
AppAddItems(s, i, category, qtys) ==
    /\ InApp(s) /\ Step
    /\ ~patients[s][i].discharged
    /\ LET r == app_add_items(patients[s][i], category, qtys, 1)
           list == [patients[s] EXCEPT ![i] = r.self]
       IN  /\ patients' = [patients EXCEPT ![s] = list]
           /\ file' = IF r.exc = "none" THEN save_data(list) ELSE file
           /\ event' = Event(s, "app_add_" \o category, i, r.exc, "", NoBill)
    /\ UNCHANGED <<fe, pc, cur, patient_count>>

\* "Assign doctor": docsel = 0 is "None", else the id of the chosen roster entry
AppAssignDoctor(s, i, docsel, custom_name, custom_fee) ==
    /\ InApp(s) /\ Step
    /\ ~patients[s][i].discharged
    /\ LET assigned == docsel # 0 \/ custom_name # ""
           r == IF docsel # 0 THEN assign_doctor(patients[s][i], docsel)
                ELSE IF custom_name # "" THEN set_doctor(patients[s][i], custom_name, custom_fee, "ENT")
                ELSE Ok(patients[s][i])
           list == [patients[s] EXCEPT ![i] = r.self]
       IN  /\ patients' = [patients EXCEPT ![s] = list]
           /\ file' = IF assigned /\ r.exc = "none" THEN save_data(list) ELSE file
           /\ event' = Event(s, "app_assign_doctor", i,
                             IF assigned THEN r.exc ELSE "no doctor", "", NoBill)
    /\ UNCHANGED <<fe, pc, cur, patient_count>>

\* "Change bed and recalc charges": only RuntimeError is caught
AppChangeBed(s, i, bed_type, new_bed_choice, new_nights) ==
    /\ InApp(s) /\ Step
    /\ ~patients[s][i].discharged
    /\ LET r == set_bed_choice(patients[s][i], new_bed_choice, new_nights)
           list == [patients[s] EXCEPT ![i] = r.self]
       IN  /\ patients' = [patients EXCEPT ![s] = list]
           /\ file' = IF r.exc = "none" THEN save_data(list) ELSE file
           /\ event' = Event(s, "app_change_bed", i, r.exc, "", NoBill)
    /\ UNCHANGED <<fe, pc, cur, patient_count>>

\* the bill written when a record is selected, and "Show Bill"
AppShowBill(s, i) ==
    /\ InApp(s) /\ Step
    /\ event' = Event(s, "app_show_bill", i, "none", "", get_bill_text(patients[s][i]))
    /\ UNCHANGED <<file, fe, pc, patients, cur, patient_count>>

\* "Save Updates" (drawn after "Update Bill" or "View Patient Info")
AppSaveUpdates(s, i, f) ==
    /\ InApp(s) /\ Step
    /\ ~patients[s][i].discharged
    /\ LET r == save_updates(patients[s][i], f)
           list == [patients[s] EXCEPT ![i] = r.self]
       IN  /\ patients' = [patients EXCEPT ![s] = list]
           /\ file' = IF r.exc = "none" THEN save_data(list) ELSE file
           /\ event' = Event(s, "app_save_updates", i, r.exc, "", NoBill)
    /\ UNCHANGED <<fe, pc, cur, patient_count>>

\* "Reload from disk"
AppReload(s) ==
    /\ InApp(s) /\ Step
    /\ LET r == from_dicts(load_data(file), patient_count[s])
       IN  /\ patients' = [patients EXCEPT ![s] = IF r.exc = "none" THEN r.list ELSE @]
           /\ patient_count' = [patient_count EXCEPT ![s] = r.count]
           /\ event' = Event(s, "app_reload", 0, r.exc, "", NoBill)
    /\ UNCHANGED <<file, fe, pc, cur>>

App(s) ==
    \/ \E bed_type \in AppBedTypes, cur_choice \in {None} \cup HeldBeds(patients[s]) :
          \E bed_choice \in Range(FirstN(app_beds_for_type(patients[s], bed_type, cur_choice),
                                         MaxBedPick)) :
             AppCreate(s, IdA, "", bed_type, cur_choice, bed_choice, 3)
    \/ \E i \in DOMAIN patients[s] :
          \/ AppView(s, i)
          \/ \E category \in {"treatment", "pharmacy", "lab"}, qtys \in AppQtys :
                AppAddItems(s, i, category, qtys)
          \/ \E d \in AppDoctors : AppAssignDoctor(s, i, d[1], d[2], 700)
          \/ \E bed_type \in AppBedTypes, new_nights \in AppNights :
                \E new_bed_choice \in Range(FirstN(compute_available_beds(
                        [k \in DOMAIN patients[s] |-> to_dict(patients[s][k])])[bed_type],
                        MaxBedPick)) :
                   AppChangeBed(s, i, bed_type, new_bed_choice, new_nights)
          \/ AppShowBill(s, i)
          \/ \E f \in AppEdits : AppSaveUpdates(s, i, f)
    \/ AppReload(s)

Next ==
    \E s \in {1} :
        \/ \E f \in {"cli", "form", "app"} : Start(s, f)
        \/ Cli(s)
        \/ Form(s)
        \/ App(s)

Spec == Init /\ [][Next]_vars

-----------------------------------------------------------------------------
(* The data file changed from outside the program: deleted, overwritten with *)
(* bytes that are no JSON document (a garbled or truncated file; a file that *)
(* cannot be opened reads the same way), or overwritten with a JSON document *)
(* that is no list of objects.                                              *)

DamageKinds == {"deleted", "garbled", "not records"}

Damage(kind) ==
    /\ Step
    /\ file' = IF kind = "deleted" THEN [exists |-> FALSE, parses |-> FALSE, items |-> <<>>]
               ELSE IF kind = "garbled" THEN [exists |-> TRUE, parses |-> FALSE, items |-> <<>>]
               ELSE [exists |-> TRUE, parses |-> TRUE, items |-> <<NotADict>>]
    /\ event' = Event(0, "damage", 0, kind, "", NoBill)
    /\ UNCHANGED <<fe, pc, patients, cur, patient_count>>

NextDamage ==
    \/ Next
    \/ \E kind \in DamageKinds : Damage(kind)

SpecDamage == Init /\ [][NextDamage]_vars

-----------------------------------------------------------------------------
(* Two processes of the form front-end started on the same data file: each *)
(* loads the file once, at its start, and then writes the whole of its own *)
(* collection with every save.                                             *)

NextTwo ==
    \E s \in AllSessions :
        \/ Start(s, "form")
        \/ Form(s)

SpecTwo == Init /\ [][NextTwo]_vars

-----------------------------------------------------------------------------
(* A process started on a data file written by something else than this    *)
(* version's save_data (an older version, an editor): it holds one entry    *)
(* with any of the keys of to_dict missing.                                 *)

FullEntry ==
    [patient_id |-> 7, room_charge |-> 36000, treatment_charge |-> 8000,
     pharmacy_charge |-> 800, lab_charge |-> 1600, service_charge |-> 300,
     name |-> "Ann", age |-> 30, address |-> "Pune", admit_date |-> "2026-10-30",
     discharge_date |-> Today, bed_id |-> <<"ICU", "1">>, discharged |-> TRUE,
     assigned_doctor |-> <<Doctor_to_dict(DOCTORS[2])>>, doctor_fee |-> 1500]

StoredEntries == {[k \in K |-> FullEntry[k]] : K \in SUBSET DOMAIN FullEntry}

InitStored ==
    /\ file \in {[exists |-> TRUE, parses |-> TRUE, items |-> <<e>>] : e \in StoredEntries}
    /\ fe = [s \in AllSessions |-> "none"]
    /\ pc = [s \in AllSessions |-> "off"]
    /\ patients = [s \in AllSessions |-> <<>>]
    /\ cur = [s \in AllSessions |-> 0]
    /\ patient_count = [s \in AllSessions |-> 0]
    /\ event = Event(0, "init", 0, "none", "", NoBill)
    /\ steps = 0

NextStored == \E s \in {1} : Start(s, "cli")

SpecStored == InitStored /\ [][NextStored]_vars

-----------------------------------------------------------------------------
(* Properties.  They read the model through the state and through `event`, *)
(* the record of the handler run that led to the state.                    *)

MutatingOps ==
    {"set_patient_data", "set_bed_choice", "add_treatment_item", "add_pharmacy_item",
     "add_lab_test", "assign_doctor", "set_doctor"}

DischargeOps == {"discharge", "cli_discharge", "form_discharge"}

CreateOps == {"__init__", "cli_create", "form_create", "app_create"}

ReloadOps == {"start", "form_refresh", "app_reload"}

\* the five charges discharge sets to zero
ChargesZero(r) ==
    /\ r.room_charge = 0
    /\ r.treatment_charge = 0
    /\ r.pharmacy_charge = 0
    /\ r.lab_charge = 0
    /\ r.doctor_fee = 0

\* the handler run that led here acted on record i of session s
RanOn(s, i) == steps' = steps + 1 /\ event'.s = s /\ event'.i = i

\* the record the last handler run acted on
HasSubject == event.s \in AllSessions /\ event.i \in DOMAIN patients[event.s]
Subject == patients[event.s][event.i]

Dicts(list) == [k \in DOMAIN list |-> to_dict(list[k])]

\* every bed id compute_available_beds lists for the collection
Listed(list) ==
    UNION {Range(compute_available_beds(Dicts(list))[t]) : t \in DOMAIN BED_TYPES}

\* C1: on a record with discharged = true, each of set_patient_data,
\* set_bed_choice, add_treatment_item, add_pharmacy_item, add_lab_test,
\* assign_doctor and set_doctor ends with the discharged-record error
\* (RuntimeError) and leaves every field of the record as it was, whatever the
\* arguments.
C1_DischargedRecordRejectsMutation ==
    [][\A s \in AllSessions : \A i \in DOMAIN patients[s] :
          (patients[s][i].discharged /\ RanOn(s, i) /\ event'.op \in MutatingOps)
              => /\ event'.exc = "RuntimeError"
                 /\ patients'[s] = patients[s]]_vars

\* C1 witness: set_bed_choice has just been refused on a discharged record
C1_Witness ==
    /\ HasSubject
    /\ event.op = "set_bed_choice"
    /\ event.exc = "RuntimeError"
    /\ Subject.discharged

\* C2: in every reachable state, in memory and in the store, a record with
\* discharged = true has room_charge, treatment_charge, pharmacy_charge,
\* lab_charge and doctor_fee all equal to 0.
C2_DischargedChargesZero ==
    /\ \A s \in AllSessions : \A i \in DOMAIN patients[s] :
          patients[s][i].discharged => ChargesZero(patients[s][i])
    /\ \A k \in DOMAIN file.items :
          file.items[k]["discharged"] => ChargesZero(file.items[k])

\* C2 witness: a record that held a bed, and so had a room charge, was
\* discharged, saved and has been reloaded from the store
C2_Witness ==
    /\ event.op \in ReloadOps
    /\ \E i \in DOMAIN patients[event.s] :
          /\ patients[event.s][i].discharged
          /\ Truthy(patients[event.s][i].bed_id)
          /\ file.items[i]["discharged"]

\* C3: the grand total that get_bill_text and display_bill report for a
\* discharged record is 0.
C3_DischargedBillIsZero ==
    (event.bill.shown /\ HasSubject /\ Subject.discharged) => event.bill.grand = 0

Ids(list) == {list[k].patient_id : k \in DOMAIN list}

MaxOf(S) == IF S = {} THEN 0 ELSE CHOOSE m \in S : \A x \in S : x <= m

\* C6: patient ids are strictly increasing in creation order, and the id given
\* to a new record is the largest existing id plus one.
C6_NextIdIsMaxPlusOne ==
    [][\A s \in AllSessions :
          (steps' = steps + 1 /\ event'.s = s /\ event'.op \in CreateOps
              /\ Len(patients'[s]) = Len(patients[s]) + 1)
              => /\ patients'[s][Len(patients'[s])].patient_id = MaxOf(Ids(patients[s])) + 1
                 /\ \A j, k \in DOMAIN patients'[s] :
                       j < k => patients'[s][j].patient_id < patients'[s][k].patient_id]_vars

\* C7: compute_available_beds never lists a bed that a record which is not
\* discharged holds, and once a record holding a bed is discharged the next
\* call lists that bed.
C7_BedsHeldAndFreed ==
    [][\A s \in AllSessions :
          /\ \A k \in DOMAIN patients'[s] :
                (~patients'[s][k].discharged /\ Truthy(patients'[s][k].bed_id))
                    => patients'[s][k].bed_id \notin Listed(patients'[s])
          /\ \A i \in DOMAIN patients[s] :
                (RanOn(s, i) /\ event'.op \in DischargeOps
                    /\ ~patients[s][i].discharged /\ patients'[s][i].discharged
                    /\ Truthy(patients[s][i].bed_id))
                    => patients[s][i].bed_id \in Listed(patients'[s])]_vars

\* C8: the grand total a bill reports is, at the moment of reading, the sum of
\* room_charge, treatment_charge, pharmacy_charge, lab_charge, doctor_fee and
\* service_charge of the record.
C8_GrandTotalIsSumOfCharges ==
    (event.bill.shown /\ HasSubject)
        => event.bill.grand = Subject.room_charge + Subject.treatment_charge
                                + Subject.pharmacy_charge + Subject.lab_charge
                                + Subject.doctor_fee + Subject.service_charge

\* C8 witness: a bill of a record with a room charge, a treatment charge and a
\* doctor fee has just been written
C8_Witness ==
    /\ event.bill.shown
    /\ HasSubject
    /\ Subject.room_charge > 0
    /\ Subject.treatment_charge > 0
    /\ Subject.doctor_fee > 0
    /\ event.bill.grand > Subject.service_charge

ItemNames == {m[k][1] : m \in {treatment_map, pharmacy_map, lab_map}, k \in 1..5}

\* items.get(name, 0) of an item map that may be absent
Qty(items, name) == IF items = None THEN 0 ELSE Get(items[1], name, 0)

SameRecord(a, b) ==
    /\ to_dict(a) = to_dict(b)
    /\ \A name \in ItemNames :
          /\ Qty(a.treatment_items, name) = Qty(b.treatment_items, name)
          /\ Qty(a.pharmacy_items, name) = Qty(b.pharmacy_items, name)
          /\ Qty(a.lab_items, name) = Qty(b.lab_items, name)

\* C9: saving the collection and loading it back gives a collection equal to
\* the one saved in every field of the data model: id, demographics, dates,
\* the six charges, the quantity maps, bed id, discharged and the doctor.
C9_SaveLoadLossless ==
    \A s \in AllSessions :
        LET back == from_dicts(load_data(save_data(patients[s])), 0).list
        IN  /\ Len(back) = Len(patients[s])
            /\ \A k \in DOMAIN back : SameRecord(back[k], patients[s][k])

\* the nightly rate of each bed type, in the order of BED_TYPES
BedRates == <<12000, 8000, 5000, 3000>>

\* C10: for every bed id compute_available_beds lists, of each of the four bed
\* types, set_bed_choice on a record that is not discharged succeeds, stores
\* the bed id and sets room_charge to the rate of the bed's type (the part of
\* the id before its last "-") times the nights.
C10_SetBedChoiceEveryType ==
    [][\A s \in AllSessions : \A i \in DOMAIN patients[s] :
          \A t \in DOMAIN BED_TYPES, nights \in ApiNights :
             \A b \in Range(compute_available_beds(Dicts(patients[s]))[t]) \cap ApiBedIds :
                (~patients[s][i].discharged /\ ApiSetBedChoice(s, i, b, nights))
                    => /\ event'.exc = "none"
                       /\ SubSeq(b, 1, Len(b) - 1) = BED_TYPES[t]
                       /\ patients'[s][i].bed_id = b
                       /\ patients'[s][i].room_charge = BedRates[t] * nights]_vars

\* the file is not what save_data writes: absent, not a JSON document, or a
\* JSON document that is no list of objects
Damaged(f) == ~f.exists \/ ~f.parses \/ NotADict \in Range(f.items)

\* C11: loading never fails: a front-end started on a data file that is
\* absent, unreadable or corrupt starts normally and holds no records.
C11_LoadNeverFails ==
    /\ event.op \in ReloadOps => event.exc = "none"
    /\ (event.op = "start" /\ Damaged(file))
          => /\ pc[event.s] = "run"
             /\ patients[event.s] = <<>>

\* the handler run that ends in the primed state refused what it was asked:
\* it raised, or it printed a refusal (loading and outside damage are no
\* operations on records; a second discharge is a no-op, not a refusal)
Refused(e) ==
    /\ e.op \notin ReloadOps \cup {"damage", "init"}
    /\ e.exc \notin {"none", "already discharged"}

\* the records of two collections agree field by field and item by item
SameRecords(a, b) ==
    /\ Len(a) = Len(b)
    /\ \A k \in DOMAIN a : SameRecord(a[k], b[k])

\* C12: every refused operation (unknown bed type, unknown line item, unknown
\* doctor id, invalid menu input, operation on a discharged record) leaves the
\* in-memory records unchanged and the persisted store unchanged: no save is
\* performed for the refused action.
C12_RefusedChangesNothing ==
    [][\A s \in AllSessions :
          (steps' = steps + 1 /\ event'.s = s /\ Refused(event'))
             => /\ SameRecords(patients'[s], patients[s])
                /\ file' = file]_vars

\* the store holds the serialized collection of session s: all records, in
\* order, each with its current field values
StoreHolds(f, list) ==
    /\ f.exists /\ f.parses
    /\ f.items = Dicts(list)

\* the handler run that ends in the primed state completed an action of
\* session s: it raised nothing, and the session is back at its menu or script
\* (a turn inside a submenu of the terminal is not yet the end of options 3-5)
Completed(s) ==
    /\ steps' = steps + 1
    /\ event'.s = s
    /\ event'.op \notin ReloadOps
    /\ event'.exc \notin {"RuntimeError", "ValueError", "AttributeError"}
    /\ pc'[s] = "run"

SubmenuExits == {"cli_exit_treatment", "cli_exit_pharmacy", "cli_exit_lab"}

\* C13: with a single writer, after every completed front-end action that
\* changes the collection (create, bed assignment, line items, doctor
\* assignment, edit, discharge) the store holds exactly the full serialized
\* in-memory collection.
C13_StoreFollowsEveryChange ==
    [][\A s \in AllSessions :
          (/\ Completed(s)
           /\ \/ Dicts(patients'[s]) # Dicts(patients[s])
              \/ event'.op \in SubmenuExits)
             => StoreHolds(file', patients'[s])]_vars

\* the store after an action on the second of two records: both are in it
C13_Witness ==
    /\ event.op \in {"cli_discharge", "app_save_updates", "form_add_treatment",
                     "cli_exit_treatment", "app_assign_doctor"}
    /\ event.exc = "none"
    /\ Len(patients[event.s]) = 2
    /\ StoreHolds(file, patients[event.s])

CliSubmenus == {"treatment", "pharmacy", "lab"}

\* C14: in the terminal front-end every menu choice (valid or invalid, with or
\* without a current patient, the current patient admitted or discharged)
\* returns control to the menu or to the submenu it opened; the menu loop ends
\* only through option 11, which saves the collection first.
C14_MenuEndsOnlyByExit ==
    [][\A s \in AllSessions :
          (/\ fe[s] = "cli" /\ pc[s] \in {"run"} \cup CliSubmenus
           /\ steps' = steps + 1 /\ event'.s = s /\ event'.op # "start")
             => \/ pc'[s] \in {"run"} \cup CliSubmenus
                \/ /\ event'.op = "cli_exit"
                   /\ StoreHolds(file', patients[s])]_vars

\* the bed id names a known bed type: it is "<BedTypeName>-<rest>"
NamesKnownType(b) ==
    Len(b) >= 2 /\ SubSeq(b, 1, Len(b) - 1) \in Range(BED_TYPES)

\* the rate of the bed type a bed id names
RateOf(b) ==
    BedRates[CHOOSE t \in DOMAIN BED_TYPES : BED_TYPES[t] = SubSeq(b, 1, Len(b) - 1)]

\* C15: for a record that is not discharged, set_bed_choice fails only when
\* the bed id does not name one of the four known bed types: with a bed id that
\* names one it succeeds, setting bed_id and room_charge, occupied or not.
C15_SetBedChoiceFailsOnlyOnType ==
    [][\A s \in AllSessions : \A i \in DOMAIN patients[s] :
          \A b \in ApiBedIds, nights \in ApiNights :
             (/\ ~patients[s][i].discharged
              /\ NamesKnownType(b)
              /\ ApiSetBedChoice(s, i, b, nights))
                => /\ event'.exc = "none"
                   /\ patients'[s][i].bed_id = b
                   /\ patients'[s][i].room_charge = RateOf(b) * nights]_vars

\* the bed ids held by the records of a collection that are not discharged
ActiveBeds(list) ==
    {list[k].bed_id : k \in {j \in DOMAIN list : ~list[j].discharged /\ list[j].bed_id # None}}

\* the number at the end of a bed id of the id range of a type
NumberText == [n \in 1..BEDS_PER_TYPE |-> ToString(n)]
BedNumber(b) == CHOOSE n \in 1..BEDS_PER_TYPE : NumberText[n] = b[Len(b)]

\* C16: compute_available_beds returns, for each of the four bed types,
\* exactly the bed ids TypeName-1 .. TypeName-20 without those held by records
\* that are not discharged, in ascending order of their numbers.
C16_AvailableIsRangeMinusHeld ==
    \A s \in {r \in AllSessions : patients[r] # <<>>} :
        LET available == compute_available_beds(Dicts(patients[s]))
        IN  /\ DOMAIN available = DOMAIN BED_TYPES
            /\ \A t \in DOMAIN BED_TYPES :
                  /\ Range(available[t]) =
                        {BED_TYPES[t] \o <<NumberText[n]>> : n \in 1..BEDS_PER_TYPE}
                            \ ActiveBeds(patients[s])
                  /\ \A k \in 2..Len(available[t]) :
                        BedNumber(available[t][k - 1]) < BedNumber(available[t][k])

\* a record holds the first ICU bed, and the allocator lists the other nineteen
C16_Witness ==
    /\ event.op \in {"cli_select_bed", "app_create", "form_assign_bed"}
    /\ event.exc = "none"
    /\ <<"ICU", "1">> \in ActiveBeds(patients[event.s])
    /\ Len(compute_available_beds(Dicts(patients[event.s]))[1]) = BEDS_PER_TYPE - 1

\* C17: in every state reachable through the front-ends the bed_id of every
\* record is absent or "<BedTypeName>-<n>" with BedTypeName one of the four
\* known types and 1 <= n <= 20.
C17_BedIdWellFormed ==
    \A s \in AllSessions : \A k \in DOMAIN patients[s] :
        \/ patients[s][k].bed_id = None
        \/ \E t \in DOMAIN BED_TYPES, n \in 1..BEDS_PER_TYPE :
              patients[s][k].bed_id = BED_TYPES[t] \o <<NumberText[n]>>

\* C18: in every reachable state the six charge fields of every record are
\* non-negative, for any integers entered as nights, quantities or fees
\* through the terminal menu or the programmatic operations.
C18_ChargesNonNegative ==
    \A s \in AllSessions : \A k \in DOMAIN patients[s] :
        LET r == patients[s][k]
        IN  /\ r.room_charge >= 0
            /\ r.treatment_charge >= 0
            /\ r.pharmacy_charge >= 0
            /\ r.lab_charge >= 0
            /\ r.doctor_fee >= 0
            /\ r.service_charge >= 0

Categories == {"treatment", "pharmacy", "lab"}

\* the price list of a category
PriceList(category) ==
    IF category = "treatment" THEN treatment_prices
    ELSE IF category = "pharmacy" THEN pharmacy_prices
    ELSE lab_prices

\* record r with the charge of the category raised by amount, nothing else changed
Raised(r, category, amount) ==
    IF category = "treatment" THEN [r EXCEPT !.treatment_charge = @ + amount]
    ELSE IF category = "pharmacy" THEN [r EXCEPT !.pharmacy_charge = @ + amount]
    ELSE [r EXCEPT !.lab_charge = @ + amount]

\* the add operation of a category, as a call and as a step of a caller
AddItem(category, r, c, q) ==
    IF category = "treatment" THEN add_treatment_item(r, c, q)
    ELSE IF category = "pharmacy" THEN add_pharmacy_item(r, c, q)
    ELSE add_lab_test(r, c, q)

ApiAddItem(category, s, i, c, q) ==
    IF category = "treatment" THEN ApiAddTreatmentItem(s, i, c, q)
    ELSE IF category = "pharmacy" THEN ApiAddPharmacyItem(s, i, c, q)
    ELSE ApiAddLabTest(s, i, c, q)

\* C19: on a record that is not discharged, add_treatment_item,
\* add_pharmacy_item and add_lab_test with a choice of the price list (1..5)
\* raise the charge of their category by exactly unit price times quantity and
\* change no other field; with a choice outside the list they fail with an
\* error and change nothing.  A further addition raises the charge to the sum
\* of price times quantity over both, so by induction over every sequence.
C19_AddItemRaisesByPriceTimesQty ==
    [][\A s \in AllSessions : \A i \in DOMAIN patients[s] :
          \A category \in Categories, c \in ApiChoices, q \in ApiQtys :
             (~patients[s][i].discharged /\ ApiAddItem(category, s, i, c, q))
                => LET prices == PriceList(category)
                       before == patients[s][i]
                   IN  IF c \in 1..5
                       THEN /\ event'.exc = "none"
                            /\ patients'[s] =
                                  [patients[s] EXCEPT ![i] = Raised(before, category, prices[c] * q)]
                            /\ \A c2 \in 1..5, q2 \in ApiQtys :
                                  LET r2 == AddItem(category, patients'[s][i], c2, q2)
                                  IN  /\ r2.exc = "none"
                                      /\ r2.self = Raised(before, category,
                                                          prices[c] * q + prices[c2] * q2)
                       ELSE /\ event'.exc = "ValueError"
                            /\ patients'[s] = patients[s]]_vars

\* a record whose pharmacy charge was raised twice, and an addition refused
\* for a choice outside the list that left it so
C19_Witness ==
    /\ event.op = "add_pharmacy_item"
    /\ event.exc = "ValueError"
    /\ ~patients[event.s][event.i].discharged
    /\ patients[event.s][event.i].pharmacy_charge = 2 * (pharmacy_prices[2] * 2)

\* C20: on a record that is not discharged, assign_doctor(id) with an id of the
\* roster (1..4) sets assigned_doctor to that roster doctor and doctor_fee to
\* that doctor's fee, replacing any earlier doctor and fee, and changes nothing
\* else; with an id that is not in the roster it fails with an error and
\* leaves assigned_doctor and doctor_fee unchanged.
C20_AssignDoctorSetsDoctorAndFee ==
    [][\A s \in AllSessions : \A i \in DOMAIN patients[s] : \A id \in ApiDoctorIds :
          (~patients[s][i].discharged /\ ApiAssignDoctor(s, i, id))
             => LET before == patients[s][i]
                    after == patients'[s][i]
                IN  IF id \in 1..4
                    THEN /\ event'.exc = "none"
                         /\ after.assigned_doctor # None
                         /\ after.assigned_doctor[1] = DOCTORS[id]
                         /\ after.assigned_doctor[1].id = id
                         /\ after.doctor_fee = DOCTORS[id].fee
                         /\ after = [before EXCEPT !.assigned_doctor = after.assigned_doctor,
                                                   !.doctor_fee = after.doctor_fee]
                    ELSE /\ event'.exc = "ValueError"
                         /\ after.assigned_doctor = before.assigned_doctor
                         /\ after.doctor_fee = before.doctor_fee]_vars

\* assign_doctor(2) gave a record that is not discharged the second doctor of
\* the roster and their fee
C20_Witness ==
    /\ event.op = "assign_doctor"
    /\ event.exc = "none"
    /\ ~patients[event.s][event.i].discharged
    /\ patients[event.s][event.i].assigned_doctor = <<DOCTORS[2]>>
    /\ patients[event.s][event.i].doctor_fee = 1500

\* C21: set_doctor(name, fee, specialty) on a record that is not discharged
\* creates a doctor with id 0 and sets doctor_fee to the given fee coerced to
\* be non-negative: for every fee, negative ones included, doctor_fee and the
\* doctor's fee are >= 0 afterwards.
C21_SetDoctorFeeNonNegative ==
    [][\A s \in AllSessions : \A i \in DOMAIN patients[s] : \A fee \in ApiFees :
          (~patients[s][i].discharged /\ ApiSetDoctor(s, i, fee))
             => /\ event'.exc = "none"
                /\ patients'[s][i].assigned_doctor # None
                /\ patients'[s][i].assigned_doctor[1].id = 0
                /\ patients'[s][i].assigned_doctor[1].fee >= 0
                /\ patients'[s][i].doctor_fee >= 0]_vars

\* C22: setting identity on a record that is not discharged never fails and
\* leaves age a non-negative integer: an age that is no number gives age 0 and
\* a negative one is coerced to a non-negative value (here: set_patient_data).
C22_AgeNeverFailsNeverNegative ==
    [][\A s \in AllSessions : \A i \in DOMAIN patients[s] :
          \A age \in ApiAges, dd \in ApiDates :
             (~patients[s][i].discharged /\ ApiSetPatientData(s, i, IdA, age, dd))
                => /\ event'.exc = "none"
                   /\ patients'[s][i].age >= 0
                   /\ age = NotANumber => patients'[s][i].age = 0]_vars

\* the sum of quantity times unit price over a stored quantity map, for the
\* five entries (name, price) of the map of a category
MapTotal(items, map) ==
    SumSeq([k \in DOMAIN map |-> Qty(items, map[k][1]) * map[k][2]])

\* C23: in the form front-end, for every record that is not discharged each
\* category charge (treatment, pharmacy, lab) equals the sum of quantity times
\* unit price over the record's stored quantity map of the category, after any
\* sequence of submissions, saves and reloads.
C23_FormChargeIsSumOfMap ==
    \A s \in AllSessions : \A k \in DOMAIN patients[s] :
        (fe[s] = "form" /\ ~patients[s][k].discharged)
           => LET r == patients[s][k]
              IN  /\ r.treatment_charge = MapTotal(r.treatment_items, treatment_map)
                  /\ r.pharmacy_charge = MapTotal(r.pharmacy_items, pharmacy_map)
                  /\ r.lab_charge = MapTotal(r.lab_items, lab_map)

\* C24: when two sessions have each loaded the store and hold their own
\* collection, every save replaces the whole store with the collection of the
\* saving session, with no merge and no conflict detection: the handler that
\* saves ends without an error whatever the store held.  (The interleaving in
\* which a discharge saved by one session is gone after the other's next save
\* is C24_Witness.)
C24_SaveReplacesWholeStore ==
    [][\A s \in AllSessions :
          (steps' = steps + 1 /\ event'.s = s /\ file' # file)
             => /\ StoreHolds(file', patients'[s])
                /\ event'.exc = "none"
                /\ pc'[s] = "run"]_vars

\* both sessions run; one holds a discharged record, which it saved when it
\* discharged it; the other saved after that without an error, and in the
\* store the record is not discharged
C24_Witness ==
    \E s, t \in AllSessions :
        /\ s # t
        /\ pc[s] = "run" /\ pc[t] = "run"
        /\ event.s = s /\ event.exc = "none"
        /\ event.op \in {"form_add_treatment", "form_assign_doctor", "form_assign_bed"}
        /\ StoreHolds(file, patients[s])
        /\ \E k \in DOMAIN patients[t] :
              /\ patients[t][k].discharged
              /\ k \in DOMAIN file.items
              /\ file.items[k]["patient_id"] = patients[t][k].patient_id
              /\ ~file.items[k]["discharged"]

\* the default of every field of the data model
FieldDefaults ==
    [room_charge |-> 0, treatment_charge |-> 0, pharmacy_charge |-> 0, lab_charge |-> 0,
     service_charge |-> 500, name |-> "", age |-> 0, address |-> "", admit_date |-> "",
     discharge_date |-> "", bed_id |-> None, discharged |-> FALSE,
     assigned_doctor |-> None, doctor_fee |-> 0]

\* a start has just loaded the file, and the file is still the one it loaded
JustLoaded ==
    /\ event.op = "start" /\ event.exc = "none"
    /\ file.exists /\ file.parses
    /\ Len(patients[event.s]) = Len(file.items)

\* C25: from_dict fills every field missing from a stored entry with its
\* default (the four itemized charges 0, service_charge 500, name, address and
\* dates empty, age 0, bed_id absent, discharged false, no assigned doctor and
\* doctor_fee 0) and takes the fields that are present unchanged.
C25_FromDictDefaults ==
    JustLoaded =>
        \A k \in DOMAIN file.items : \A field \in DOMAIN FieldDefaults :
            patients[event.s][k][field] =
                IF field \in DOMAIN file.items[k] THEN file.items[k][field]
                ELSE FieldDefaults[field]

\* C25 with doctor_fee bound to the doctor: as C25, except that a stored
\* doctor_fee is taken only when the entry has an assigned doctor too, and
\* doctor_fee is 0 otherwise.
C25_FromDictDefaultsFeeWithDoctor ==
    JustLoaded =>
        \A k \in DOMAIN file.items : \A field \in DOMAIN FieldDefaults :
            LET d == file.items[k]
                taken == /\ field \in DOMAIN d
                         /\ field = "doctor_fee"
                               => "assigned_doctor" \in DOMAIN d /\ d["assigned_doctor"] # None
            IN  patients[event.s][k][field] = IF taken THEN d[field] ELSE FieldDefaults[field]

\* an entry without service_charge, discharged and doctor_fee, with a doctor,
\* was loaded
C25_Witness ==
    /\ JustLoaded
    /\ \E k \in DOMAIN file.items :
          /\ {"service_charge", "discharged", "doctor_fee"} \cap DOMAIN file.items[k] = {}
          /\ "assigned_doctor" \in DOMAIN file.items[k]
          /\ patients[event.s][k].service_charge = 500
          /\ patients[event.s][k].doctor_fee = 0
          /\ patients[event.s][k].assigned_doctor # None

\* C26: in every state reachable through front-end actions no two records of
\* a collection that are not discharged hold the same bed id.
C26_NoSharedBed ==
    \A s \in AllSessions : \A j, k \in DOMAIN patients[s] :
        (/\ j # k
         /\ ~patients[s][j].discharged /\ ~patients[s][k].discharged
         /\ patients[s][j].bed_id # None)
           => patients[s][j].bed_id # patients[s][k].bed_id

\* the fields discharge may change
DischargeChanges ==
    {"discharged", "discharge_date", "room_charge", "treatment_charge", "pharmacy_charge",
     "lab_charge", "doctor_fee"}

C28_DoctorFeeIsDoctorsFee ==
    \A s \in AllSessions : \A k \in DOMAIN patients[s] :
        ~patients[s][k].discharged
           => patients[s][k].doctor_fee =
                 IF patients[s][k].assigned_doctor = None THEN 0
                 ELSE patients[s][k].assigned_doctor[1].fee

\* a record that is not discharged came back from the store with its doctor
\* and the doctor's fee
C28_Witness ==
    /\ event.op \in ReloadOps /\ event.exc = "none"
    /\ \E k \in DOMAIN patients[event.s] :
          /\ ~patients[event.s][k].discharged
          /\ patients[event.s][k].assigned_doctor # None
          /\ patients[event.s][k].doctor_fee > 0
          /\ patients[event.s][k].doctor_fee = patients[event.s][k].assigned_doctor[1].fee

\* C29: the terminal front-end only mutates the record created most recently
\* in the session: `current` is none or the last record of the list, every
\* other record (loaded at start-up or created earlier) keeps all its fields
\* through every menu choice, and its entry in the store after a save equals
\* its entry before.
C29_TerminalMutatesCurrentOnly ==
    [][\A s \in AllSessions :
          (/\ fe[s] = "cli" /\ pc[s] \in {"run"} \cup CliSubmenus
           /\ steps' = steps + 1 /\ event'.s = s /\ event'.op # "start")
             => /\ cur'[s] \in {0, Len(patients'[s])}
                /\ cur'[s] = 0 => patients'[s] = patients[s]
                /\ \A k \in DOMAIN patients[s] :
                      k # cur'[s]
                         => /\ patients'[s][k] = patients[s][k]
                            /\ (file' # file /\ file.exists /\ k \in DOMAIN file.items)
                                  => /\ k \in DOMAIN file'.items
                                     /\ file'.items[k] = file.items[k]]_vars

\* the terminal discharged the record it created; the record before it in the
\* list is as it is in the store, not discharged
C29_Witness ==
    /\ event.op = "cli_discharge" /\ event.exc = "none"
    /\ fe[event.s] = "cli"
    /\ Len(patients[event.s]) = 2 /\ cur[event.s] = 2
    /\ patients[event.s][2].discharged
    /\ ~patients[event.s][1].discharged
    /\ file.items[1] = to_dict(patients[event.s][1])

\* the eighty beds of the hospital
AllBeds == UNION {Range(BedIdLists[t]) : t \in DOMAIN BED_TYPES}

\* C30: re-assigning a bed to a record that is not discharged and already
\* holds one replaces bed_id and overwrites room_charge with the rate of the
\* new bed times the nights (nothing of the old room charge stays); the next
\* compute_available_beds does not list the new bed, and lists the old one
\* again unless another record that is not discharged holds it.
C30_ReassignReplacesBed ==
    [][\A s \in AllSessions : \A i \in DOMAIN patients[s] :
          \A b \in ApiBedIds \cap AllBeds, nights \in ApiNights :
             (/\ ~patients[s][i].discharged
              /\ patients[s][i].bed_id \in AllBeds
              /\ ApiSetBedChoice(s, i, b, nights))
                => LET old == patients[s][i].bed_id
                   IN  /\ event'.exc = "none"
                       /\ patients'[s][i].bed_id = b
                       /\ patients'[s][i].room_charge = RateOf(b) * nights
                       /\ b \notin Listed(patients'[s])
                       /\ (old # b /\ old \notin ActiveBeds([patients'[s] EXCEPT ![i].bed_id = None]))
                             => old \in Listed(patients'[s])]_vars

====
